---- MODULE Spec2Model ----
(***************************************************************************)
(* FloorIQ dashboard, IQ model (src/app.py).                                *)
(*                                                                         *)
(* The state is the equipment list held by FloorIQIQApp (a list of dicts), *)
(* the facility aggregates gym_iq / gym_band, and the outcome of the last  *)
(* scoring call.  compute_iq_fields is one action.                          *)
(*                                                                         *)
(* Numbers.  Python floats are modelled by exact values:                   *)
(*   - a rate (mph, mu) is a rational  [num, den]  in lowest terms;        *)
(*   - a deviation (the result of pstdev, or the literal 1.0) is           *)
(*     coef * sqrt(rad)  with coef a rational and rad a natural;           *)
(*   - a z-score is  num / (den * sqrt(rad)).                              *)
(* round() is Python's round-half-to-even, computed on the exact value.    *)
(***************************************************************************)
EXTENDS Integers, Sequences, FiniteSets, TLC

HOURS_OPEN_PER_WEEK == 168

MinCategorySamples == 5

\* ---- bounds of the explored inputs -------------------------------------
MaxItems == 6
MaxSpread == 110

Categories == {"Cardio", "Strength"}
\* (total_minutes, weekly_change) of the records supplied: a steady record, one
\* that gained all its minutes, and a busier one that lost minutes
Profiles == {<<10, 0>>, <<10, 14>>, <<12, 0 - 14>>}

VARIABLES items, gym_iq, gym_band, cat_baselines, outcome, rescored

vars == <<items, gym_iq, gym_band, cat_baselines, outcome, rescored>>

\* ---- integer helpers -----------------------------------------------------
Abs(n) == IF n < 0 THEN 0 - n ELSE n

Max(a, b) == IF a >= b THEN a ELSE b

Min(a, b) == IF a <= b THEN a ELSE b

RECURSIVE Gcd(_, _)
Gcd(a, b) == IF b = 0 THEN a ELSE Gcd(b, a % b)

Lcm(a, b) == (a \div Gcd(a, b)) * b

\* floor of the square root of n, by bisection; lo*lo <= n < hi*hi
RECURSIVE IsqrtBetween(_, _, _)
IsqrtBetween(n, lo, hi) ==
  IF hi - lo <= 1 THEN lo
  ELSE LET mid == (lo + hi) \div 2
       IN IF mid * mid <= n THEN IsqrtBetween(n, mid, hi)
                            ELSE IsqrtBetween(n, lo, mid)

Isqrt(n) == IsqrtBetween(n, 0, Min(n + 1, 46341))

\* ---- exact rationals -----------------------------------------------------
\* (a local operator with a parameter, LET F(x) == ... IN F(e), names the value
\* of e once; this is how intermediate results are held below)
Rat(n, d) ==
  LET Over(g) == [num |-> n \div g, den |-> d \div g]
  IN Over(Gcd(Abs(n), d))

RatAdd(a, b) ==
  LET On(l) == Rat(a.num * (l \div a.den) + b.num * (l \div b.den), l)
  IN On(Lcm(a.den, b.den))

RatSub(a, b) ==
  LET On(l) == Rat(a.num * (l \div a.den) - b.num * (l \div b.den), l)
  IN On(Lcm(a.den, b.den))

RECURSIVE RatSum(_)
RatSum(vals) ==
  IF vals = <<>> THEN Rat(0, 1) ELSE RatAdd(Head(vals), RatSum(Tail(vals)))

RECURSIVE LcmOfDens(_)
LcmOfDens(vals) ==
  IF vals = <<>> THEN 1 ELSE Lcm(Head(vals).den, LcmOfDens(Tail(vals)))

RECURSIVE GcdOfSeq(_)
GcdOfSeq(ns) ==
  IF ns = <<>> THEN 0 ELSE Gcd(Abs(Head(ns)), GcdOfSeq(Tail(ns)))

RECURSIVE SumSq(_)
SumSq(ns) ==
  IF ns = <<>> THEN 0 ELSE Head(ns) * Head(ns) + SumSq(Tail(ns))

\* ---- statistics.mean / statistics.pstdev ---------------------------------
StatisticsError == [raise |-> "StatisticsError"]

Raises(v) == "raise" \in DOMAIN v

\* statistics.mean: exact sum divided by the count; raises on no data
mean(vals) ==
  IF Len(vals) < 1 THEN StatisticsError
  ELSE LET Of(s) == Rat(s.num, s.den * Len(vals)) IN Of(RatSum(vals))

\* the float literal 1.0 as a deviation
OnePointZero == [coef |-> [num |-> 1, den |-> 1], rad |-> 1]

IsZero(sigma) == sigma.rad = 0 \/ sigma.coef.num = 0

\* statistics.pstdev: sqrt( sum (x - mean)^2 / n ), kept exact as
\* (g / (L*n)) * sqrt(n * sum (e_i/g)^2)  where x_i - mean = e_i / L
pstdev(vals) ==
  IF Len(vals) < 1 THEN StatisticsError
  ELSE
    LET n == Len(vals)
        Root(L, e, g) ==
          IF g = 0 THEN [coef |-> [num |-> 0, den |-> 1], rad |-> 0]
          ELSE [coef |-> Rat(g, L * n),
                rad  |-> n * SumSq([i \in 1..n |-> e[i] \div g])]
        Scaled(L, e) == Root(L, e, GcdOfSeq(e))
        Common(devs, L) ==
          Scaled(L, [i \in 1..n |-> devs[i].num * (L \div devs[i].den)])
        About(devs) == Common(devs, LcmOfDens(devs))
        Around(mu) == About([i \in 1..n |-> RatSub(vals[i], mu)])
    IN Around(mean(vals))

\* ---- Python round(): round-half-to-even -----------------------------------
\* round(c + y / (a * sqrt(r)))  for integers c, y and naturals a, r >= 1.
\* f = floor(2*|y| / (a*sqrt(r))) decides the half-interval the value is in.
RoundHalfEven(c, y, a, r) ==
  LET sgn == IF y < 0 THEN 0 - 1 ELSE 1
      yy  == 4 * y * y
      Pick(f) ==
        LET tie  == (f * f * a * a * r = yy)
            down == c + sgn * (f \div 2)
            up   == c + sgn * ((f \div 2) + 1)
        IN IF f % 2 = 0 THEN down
           ELSE IF ~tie THEN up
           ELSE IF up % 2 = 0 THEN up ELSE down
  IN Pick(Isqrt(yy \div (a * a * r)))

\* ---- dicts -------------------------------------------------------------------
\* d[k] = v on a Python dict: the key is added when absent
Put(d, k, v) == (k :> v) @@ d

Has(d, k) == k \in DOMAIN d

\* ---- compute_iq_fields -----------------------------------------------------
ZeroDivisionError == [raise |-> "ZeroDivisionError"]
\* with_rates with the previous week taken as minutes + change
with_rates_plus(it) ==
  LET prev_minutes == Max(0, it.total_minutes + it.weekly_change)
  IN Put(Put(it, "mph", Rat(it.total_minutes, HOURS_OPEN_PER_WEEK)),
         "mph_prev", Rat(prev_minutes, HOURS_OPEN_PER_WEEK))

\* first loop: minutes per hour open, current and previous week
with_rates(it) ==
  LET prev_minutes == Max(0, it.total_minutes - it.weekly_change)
  IN Put(Put(it, "mph", Rat(it.total_minutes, HOURS_OPEN_PER_WEEK)),
         "mph_prev", Rat(prev_minutes, HOURS_OPEN_PER_WEEK))

MphList(its) == [i \in 1..Len(its) |-> its[i].mph]

\* by_cat: category -> list of the mph of its records, in list order
by_cat(its) ==
  [c \in {its[i].category : i \in 1..Len(its)} |->
     MphList(SelectSeq(its, LAMBDA it : it.category = c))]

\* gym-wide deviation with its two fallbacks to 1.0
gym_sigma(gym_mph_list) ==
  LET NonZero(sigma) == IF IsZero(sigma) THEN OnePointZero ELSE sigma
  IN NonZero(IF Len(gym_mph_list) > 1 THEN pstdev(gym_mph_list)
             ELSE OnePointZero)
\* cat_sigma without the replacement of a zero deviation
cat_sigma_raw(vals) ==
  IF Len(vals) > 1 THEN pstdev(vals) ELSE OnePointZero

\* category deviation with its two fallbacks to 1.0
cat_sigma(vals) ==
  LET NonZero(sigma) == IF IsZero(sigma) THEN OnePointZero ELSE sigma
  IN NonZero(IF Len(vals) > 1 THEN pstdev(vals) ELSE OnePointZero)
\* baselines with the sample threshold strict
baselines_strict(groups, gym_mu, gym_sd) ==
  [c \in DOMAIN groups |->
     IF Len(groups[c]) > MinCategorySamples
     THEN <<mean(groups[c]), cat_sigma(groups[c])>>
     ELSE <<gym_mu, gym_sd>>]

\* category baselines, the gym-wide baseline standing in for small categories
baselines(groups, gym_mu, gym_sd) ==
  [c \in DOMAIN groups |->
     IF Len(groups[c]) >= MinCategorySamples
     THEN <<mean(groups[c]), cat_sigma(groups[c])>>
     ELSE <<gym_mu, gym_sd>>]

\* z = (mph - mu) / sigma
zscore(mph, mu, sigma) ==
  LET Quot(nn, dd) ==
        LET Over(g) == [num |-> nn \div g, den |-> dd \div g, rad |-> sigma.rad]
        IN Over(Gcd(Abs(nn), dd))
      By(d) == Quot(d.num * sigma.coef.den, d.den * sigma.coef.num)
  IN By(RatSub(mph, mu))
\* to_iq without the final clamp to 0..200
to_iq_unclamped(mph, mu, sigma) ==
  IF IsZero(sigma) THEN ZeroDivisionError
  ELSE LET Score(z) == RoundHalfEven(100, 15 * z.num, z.den, z.rad)
       IN Score(zscore(mph, mu, sigma))

to_iq(mph, mu, sigma) ==
  IF IsZero(sigma) THEN ZeroDivisionError
  ELSE LET Score(z) ==
             LET Clamp(iq) == Max(0, Min(200, iq))
             IN Clamp(RoundHalfEven(100, 15 * z.num, z.den, z.rad))
       IN Score(zscore(mph, mu, sigma))
\* assign_iq with the delta rounded from the unrounded score difference
assign_iq_raw_delta(it, base) ==
  LET Delta(iq, iq_prev, z, zp) ==
        LET Diff(d) ==
              Put(Put(Put(it, "iq", iq), "iq_prev", iq_prev),
                  "delta_iq", RoundHalfEven(0, 15 * d.num, d.den, z.rad))
        IN Diff(RatSub(Rat(z.num, z.den), Rat(zp.num, zp.den)))
  IN Delta(to_iq(it.mph, base[1], base[2]),
           to_iq(it.mph_prev, base[1], base[2]),
           zscore(it.mph, base[1], base[2]),
           zscore(it.mph_prev, base[1], base[2]))

\* assign_iq leaving a record that already carries scores as it is
assign_iq_once(it, base) ==
  IF Has(it, "iq") THEN it
  ELSE LET Delta(iq, iq_prev) ==
             Put(Put(Put(it, "iq", iq), "iq_prev", iq_prev),
                 "delta_iq", iq - iq_prev)
       IN Delta(to_iq(it.mph, base[1], base[2]),
                to_iq(it.mph_prev, base[1], base[2]))

\* body of the last loop: iq, iq_prev against the same baseline, then delta
assign_iq(it, base) ==
  LET Delta(iq, iq_prev) ==
        Put(Put(Put(it, "iq", iq), "iq_prev", iq_prev),
            "delta_iq", iq - iq_prev)
  IN Delta(to_iq(it.mph, base[1], base[2]),
           to_iq(it.mph_prev, base[1], base[2]))
\* band_for_score with the upper boundary exclusive
band_for_score_open(iq) ==
  IF iq < 90 THEN "Below Average"
  ELSE IF iq < 110 THEN "Average"
  ELSE "Above Average"

band_for_score(iq) ==
  IF iq < 90 THEN "Below Average"
  ELSE IF iq <= 110 THEN "Average"
  ELSE "Above Average"
\* gym_iq_of truncating the mean instead of rounding it
gym_iq_of_floor(its) ==
  IF Len(its) > 0
  THEN LET Floored(m) == m.num \div m.den
       IN Floored(mean([i \in 1..Len(its) |-> Rat(its[i].iq, 1)]))
  ELSE 100

\* gym IQ: rounded mean of the machine IQs, 100 for no machines
gym_iq_of(its) ==
  IF Len(its) > 0
  THEN LET Rounded(m) == RoundHalfEven(0, m.num, m.den, 1)
       IN Rounded(mean([i \in 1..Len(its) |-> Rat(its[i].iq, 1)]))
  ELSE 100

\* One call of compute_iq_fields on the list its: the list as the call leaves
\* it, the exception that ends the call (or "ok"), the category baselines the
\* call built, and the aggregates it assigned (when it reached them).
Run(its) ==
  LET Aggregate(scored, bases) ==
        LET Banded(g) ==
              [items |-> scored, outcome |-> "ok", bases |-> bases,
               gym_iq |-> g, gym_band |-> band_for_score(g)]
        IN Banded(gym_iq_of(scored))
      Assign(rated, bases) ==
        LET bad == {i \in 1..Len(rated) : IsZero(bases[rated[i].category][2])}
        IN IF bad # {}
           THEN LET first == CHOOSE i \in bad : \A j \in bad : i <= j
                IN [items |-> [i \in 1..Len(rated) |->
                                 IF i < first
                                 THEN assign_iq(rated[i], bases[rated[i].category])
                                 ELSE rated[i]],
                    outcome |-> "ZeroDivisionError", bases |-> bases]
           ELSE Aggregate([i \in 1..Len(rated) |->
                             assign_iq(rated[i], bases[rated[i].category])],
                          bases)
      Baseline(rated, gym_mph_list, gym_mu) ==
        IF Raises(gym_mu)
        THEN [items |-> rated, outcome |-> "StatisticsError", bases |-> <<>>]
        ELSE Assign(rated,
                    baselines(by_cat(rated), gym_mu, gym_sigma(gym_mph_list)))
      Gym(rated, gym_mph_list) ==
        Baseline(rated, gym_mph_list, mean(gym_mph_list))
      Rates(rated) == Gym(rated, MphList(rated))
  IN Rates([i \in 1..Len(its) |-> with_rates(its[i])])

\* ---- the records a caller supplies -----------------------------------------
\* one raw record, as generate_equipment_data appends it
RawRecord(n, c, m, w) ==
  [id |-> n, category |-> c, total_minutes |-> m, weekly_change |-> w]

RawKeys == {"id", "category", "total_minutes", "weekly_change"}

\* records are supplied in a fixed order of (category, minutes, change), so
\* that each multiset of records is explored once
Rank(it) ==
  (IF it.category = "Cardio" THEN 0 ELSE 10000)
  + 100 * it.total_minutes + (it.weekly_change + 50)

Init ==
  /\ items = <<>>
  /\ gym_iq = "unset"
  /\ gym_band = "unset"
  /\ cat_baselines = <<>>
  /\ outcome = "pending"
  /\ rescored = FALSE

\* items.append({...}) of a new raw record
AddItem ==
  /\ Len(items) < MaxItems
  /\ \E c \in Categories, p \in Profiles :
       LET it == RawRecord(Len(items) + 1, c, p[1], p[2])
       IN /\ items # <<>> => Rank(items[Len(items)]) <= Rank(it)
          /\ items' = Append(items, it)
  /\ outcome' = "pending"
  /\ rescored' = FALSE
  /\ UNCHANGED <<gym_iq, gym_band, cat_baselines>>

\* compute_iq_fields(items)
compute_iq_fields ==
  \E r \in {Run(items)} :
     /\ items' = r.items
     /\ outcome' = r.outcome
     /\ cat_baselines' = r.bases
     /\ IF r.outcome = "ok"
        THEN gym_iq' = r.gym_iq /\ gym_band' = r.gym_band
        ELSE UNCHANGED <<gym_iq, gym_band>>
     /\ rescored' = (\E i \in 1..Len(items) : Has(items[i], "iq"))

Next == AddItem \/ compute_iq_fields

Spec == Init /\ [][Next]_vars

\* ---- band_for_score on its own -----------------------------------------------
\* the score is any integer around 100, the band is not yet assigned
InitBand ==
  /\ items = <<>>
  /\ gym_iq \in (100 - MaxSpread)..(100 + MaxSpread)
  /\ gym_band = "unset"
  /\ cat_baselines = <<>>
  /\ outcome = "pending"
  /\ rescored = FALSE

\* self.gym_band = self.band_for_score(self.gym_iq)
assign_gym_band ==
  /\ gym_band = "unset"
  /\ gym_band' = band_for_score(gym_iq)
  /\ UNCHANGED <<items, gym_iq, cat_baselines, outcome, rescored>>

NextBand == assign_gym_band

SpecBand == InitBand /\ [][NextBand]_vars

\* ============================ claims ========================================
Scored == outcome = "ok"

\* C1: after a scoring call every record's iq and iq_prev is an integer in
\* the closed range 0..200.
C1_Bounded ==
  Scored => \A i \in 1..Len(items) :
              items[i].iq \in 0..200 /\ items[i].iq_prev \in 0..200

\* C1 witness: a record whose previous-week score was cut back to 200 and
\* another whose previous-week score was raised to 0.
C1_Witness ==
  /\ Scored
  /\ \E i \in 1..Len(items) :
       LET b == cat_baselines[items[i].category]
       IN /\ to_iq_unclamped(items[i].mph_prev, b[1], b[2]) > 200
          /\ items[i].iq_prev = 200
  /\ \E i \in 1..Len(items) :
       LET b == cat_baselines[items[i].category]
       IN /\ to_iq_unclamped(items[i].mph_prev, b[1], b[2]) < 0
          /\ items[i].iq_prev = 0

\* C2 (as claimed): scoring an empty collection completes without raising and
\* yields facility score 100 with band "Average" and no records.
C2_EmptyScores ==
  (items = <<>> /\ outcome # "pending")
    => (outcome = "ok" /\ gym_iq = 100 /\ gym_band = "Average")

\* C3: a category with fewer than 5 records is scored against the facility
\* (mean, deviation) of all records' mph; a category with at least 5 records
\* against its own mean and population deviation, a zero deviation being 1.0.
C3_Fallback ==
  Scored =>
    /\ DOMAIN cat_baselines = {items[i].category : i \in 1..Len(items)}
    /\ \A c \in DOMAIN cat_baselines :
         LET all  == MphList(items)
             vals == MphList(SelectSeq(items, LAMBDA it : it.category = c))
             Dev(l) == IF IsZero(pstdev(l)) THEN OnePointZero ELSE pstdev(l)
         IN IF Len(vals) < 5
            THEN cat_baselines[c] = <<mean(all), Dev(all)>>
            ELSE cat_baselines[c] = <<mean(vals), Dev(vals)>>

\* C3 witness: a scored collection with a small category on the facility
\* baseline next to a large category whose own baseline differs from it.
C3_Witness ==
  /\ Scored
  /\ \E c, d \in DOMAIN cat_baselines :
       /\ Cardinality({i \in 1..Len(items) : items[i].category = c}) < 5
       /\ Cardinality({i \in 1..Len(items) : items[i].category = d}) >= 5
       /\ cat_baselines[c] # cat_baselines[d]

\* C4 (as claimed): no scoring call ends in a division error, no divisor is
\* zero, and every record of a category (or of the facility) whose records
\* all have the same mph is scored iq = 100.
C4_SentinelAnyCategory ==
  /\ outcome # "ZeroDivisionError"
  /\ Scored =>
       /\ \A c \in DOMAIN cat_baselines : ~IsZero(cat_baselines[c][2])
       /\ \A c \in DOMAIN cat_baselines :
            LET members == {i \in 1..Len(items) : items[i].category = c}
            IN (\A i, j \in members : items[i].mph = items[j].mph)
                 => \A i \in members : items[i].iq = 100
       /\ (\A i, j \in 1..Len(items) : items[i].mph = items[j].mph)
            => \A i \in 1..Len(items) : items[i].iq = 100

\* C4 (amended): no scoring call ends in a division error, no divisor is zero,
\* and every record of a category of at least 5 records (or of the facility)
\* whose records all have the same mph is scored iq = 100.
C4_Sentinel ==
  /\ outcome # "ZeroDivisionError"
  /\ Scored =>
       /\ \A c \in DOMAIN cat_baselines : ~IsZero(cat_baselines[c][2])
       /\ \A c \in DOMAIN cat_baselines :
            LET members == {i \in 1..Len(items) : items[i].category = c}
            IN (/\ Cardinality(members) >= 5
                /\ \A i, j \in members : items[i].mph = items[j].mph)
                 => \A i \in members : items[i].iq = 100
       /\ (\A i, j \in 1..Len(items) : items[i].mph = items[j].mph)
            => \A i \in 1..Len(items) : items[i].iq = 100

\* C4 witness: a category of 5 records with one mph, scored 100 on the
\* sentinel deviation, in a facility whose rates are not all the same.
C4_Witness ==
  /\ Scored
  /\ \E c \in DOMAIN cat_baselines :
       LET members == {i \in 1..Len(items) : items[i].category = c}
       IN /\ Cardinality(members) >= 5
          /\ \A i, j \in members : items[i].mph = items[j].mph
          /\ \A i \in members : items[i].iq = 100
          /\ cat_baselines[c][2] = OnePointZero
          /\ \E k \in 1..Len(items) : items[k].iq # 100

\* C5: after scoring, delta_iq = iq - iq_prev for every record, on the rounded
\* and clamped scores.
C5_Delta ==
  Scored => \A i \in 1..Len(items) :
              items[i].delta_iq = items[i].iq - items[i].iq_prev

\* C5 witness: a record with a non-zero delta whose previous score was clamped.
C5_Witness ==
  /\ Scored
  /\ \E i \in 1..Len(items) :
       items[i].delta_iq # 0 /\ items[i].iq_prev \in {0, 200}

\* C7: for a non-empty collection gym_iq is the mean of the records' iq
\* rounded to the nearest integer, and gym_band is the band of gym_iq.
C7_Facility ==
  (Scored /\ items # <<>>) =>
    LET m == mean([i \in 1..Len(items) |-> Rat(items[i].iq, 1)])
    IN /\ 2 * Abs(gym_iq * m.den - m.num) <= m.den
       /\ gym_band = (IF gym_iq < 90 THEN "Below Average"
                      ELSE IF gym_iq <= 110 THEN "Average"
                      ELSE "Above Average")

\* C7 witness: a scored collection whose mean iq is not an integer.
C7_Witness ==
  /\ Scored
  /\ items # <<>>
  /\ mean([i \in 1..Len(items) |-> Rat(items[i].iq, 1)]).den > 1

\* C8: band_for_score is "Below Average" exactly below 90, "Average" exactly
\* from 90 to 110 inclusive, "Above Average" exactly above 110.
C8_Bands ==
  gym_band # "unset" =>
    /\ gym_band \in {"Below Average", "Average", "Above Average"}
    /\ gym_band = "Below Average" <=> gym_iq < 90
    /\ gym_band = "Average" <=> (90 <= gym_iq /\ gym_iq <= 110)
    /\ gym_band = "Above Average" <=> gym_iq > 110

\* C8 witness: the upper inclusive boundary, 110, banded "Average".
C8_Witness == gym_iq = 110 /\ gym_band = "Average"

\* C9: what a scoring call leaves behind depends on the raw fields of the
\* records only: it is what a call on the same raw records, never scored
\* before, leaves behind, whatever calls came earlier.
C9_Deterministic ==
  outcome # "pending" =>
    LET raw == [i \in 1..Len(items) |->
                  [k \in RawKeys |-> items[i][k]]]
        Same(r) ==
          /\ r.items = items
          /\ r.outcome = outcome
          /\ r.outcome = "ok" => (r.gym_iq = gym_iq /\ r.gym_band = gym_band)
    IN Same(Run(raw))

\* C9 witness: a call that ran on records an earlier call had already scored.
C9_Witness == Scored /\ rescored /\ Len(items) >= 2

\* C10: the sign of delta_iq follows the sign of weekly_change, and a record
\* with no change has iq_prev = iq.
C10_DeltaSign ==
  Scored => \A i \in 1..Len(items) :
    /\ items[i].weekly_change >= 0 => items[i].delta_iq >= 0
    /\ items[i].weekly_change <= 0 => items[i].delta_iq <= 0
    /\ items[i].weekly_change = 0
         => (items[i].iq_prev = items[i].iq /\ items[i].delta_iq = 0)

\* C10 witness: a record that gained minutes and score next to one that lost
\* minutes and score.
C10_Witness ==
  /\ Scored
  /\ \E i, j \in 1..Len(items) :
       /\ items[i].weekly_change > 0 /\ items[i].delta_iq > 0
       /\ items[j].weekly_change < 0 /\ items[j].delta_iq < 0

====
